---- MODULE Spec2Model ----
(***************************************************************************)
(* Plan generation and weekly load guardrail of the AI training aid        *)
(* (src/app.py): generate_sessions_ai, the boxing and generic template     *)
(* generators, apply_weekly_load_guardrail and generate_week_plan.         *)
(*                                                                         *)
(* Python strings that the code transforms (lower(), title()) are          *)
(* sequences of one-character strings; strings that are only concatenated  *)
(* (focus, notes) are sequences of string pieces, concatenation is \o.     *)
(* Non-ASCII characters of the source's literals are written in ASCII.     *)
(* SessionPlan objects live in a heap (ref -> record) and a session list   *)
(* is a sequence of refs, so that one object can occupy several positions  *)
(* of a list, as after templates[0] is appended again.                     *)
(***************************************************************************)
EXTENDS Integers, Sequences, FiniteSets, TLC

\* ---------------------------------------------------------------- bounds
MaxSessions == 6      \* sessions_per_week ranges over 0..MaxSessions
MaxItems == 2         \* items in a model response of the pipeline runs
MaxCount == 7         \* requested count and response length of the AI runs
MaxEntries == 3       \* rows of the adherence form

\* ------------------------------------------------------ generic helpers
Max(a, b) == IF a >= b THEN a ELSE b
Min(a, b) == IF a <= b THEN a ELSE b

\* round(n / d), halves up, for n >= 0 and d > 0
RoundDiv(n, d) == (2 * n + d) \div (2 * d)

RECURSIVE Pow2(_)
Pow2(n) == IF n = 0 THEN 1 ELSE 2 * Pow2(n - 1)

RECURSIVE Pow2Mod(_, _)
\* 2^k mod c
Pow2Mod(k, c) == IF k = 0 THEN 1 % c ELSE (2 * Pow2Mod(k - 1, c)) % c

RECURSIVE FloorLog2(_)
\* for q >= 1: the E with 2^E <= q < 2^(E+1)
FloorLog2(q) == IF q < 2 THEN 0 ELSE 1 + FloorLog2(q \div 2)

RECURSIVE FactorExp(_, _, _)
\* for 0 < a < c: the least j >= from with 2^-j <= a/c
FactorExp(a, c, from) == IF a * Pow2(from) >= c THEN from ELSE FactorExp(a, c, from + 1)

\* -------------------------------------------------------------- strings
LowerLetters ==
    <<"a", "b", "c", "d", "e", "f", "g", "h", "i", "j", "k", "l", "m", "n", "o", "p", "q", "r", "s", "t", "u", "v", "w", "x", "y", "z">>
UpperLetters ==
    <<"A", "B", "C", "D", "E", "F", "G", "H", "I", "J", "K", "L", "M", "N", "O", "P", "Q", "R", "S", "T", "U", "V", "W", "X", "Y", "Z">>

IsLower(ch) == \E i \in 1..Len(LowerLetters) : LowerLetters[i] = ch
IsUpper(ch) == \E i \in 1..Len(UpperLetters) : UpperLetters[i] = ch
IsLetter(ch) == IsLower(ch) \/ IsUpper(ch)

\* str.lower() and str.upper() on one character
LowerChar(ch) ==
    IF IsUpper(ch)
    THEN LowerLetters[CHOOSE i \in 1..Len(UpperLetters) : UpperLetters[i] = ch]
    ELSE ch
UpperChar(ch) ==
    IF IsLower(ch)
    THEN UpperLetters[CHOOSE i \in 1..Len(LowerLetters) : LowerLetters[i] = ch]
    ELSE ch

\* str.lower()
Lower(s) == [i \in 1..Len(s) |-> LowerChar(s[i])]

\* str.title(): a letter that follows a non-letter (or starts the string) is
\* upper-cased, every other letter is lower-cased.
Title(s) ==
    [i \in 1..Len(s) |->
        IF i = 1 \/ ~IsLetter(s[i - 1]) THEN UpperChar(s[i]) ELSE LowerChar(s[i])]

StrBoxingLower == <<"b", "o", "x", "i", "n", "g">>
StrNovice == <<"n", "o", "v", "i", "c", "e">>
StrIntermediate == <<"i", "n", "t", "e", "r", "m", "e", "d", "i", "a", "t", "e">>
StrEasy == <<"E", "a", "s", "y">>
StrModerate == <<"M", "o", "d", "e", "r", "a", "t", "e">>
StrHard == <<"H", "a", "r", "d">>

\* `x or default` on a Python string: only the empty string is falsy.
OrDefault(text, default) == IF text = "" THEN default ELSE text

\* ----------------------------------------------------------- day order
DAYS_ORDER == <<"Mon", "Tue", "Wed", "Thu", "Fri", "Sat", "Sun">>

InDaysOrder(d) == \E i \in 1..Len(DAYS_ORDER) : DAYS_ORDER[i] = d

\* DAYS_ORDER.index(d), 0-based
DaysIndex(d) == (CHOOSE i \in 1..Len(DAYS_ORDER) : DAYS_ORDER[i] = d) - 1

\* day_index.get(s.day, 99)
DayKey(d) == IF InDaysOrder(d) THEN DaysIndex(d) ELSE 99

RECURSIVE InsertByDay(_, _, _)
\* insert ref x after every ref whose sort key is <= the key of x
InsertByDay(sorted, x, objs) ==
    IF sorted = <<>> THEN <<x>>
    ELSE IF DayKey(objs[Head(sorted)].day) <= DayKey(objs[x].day)
         THEN <<Head(sorted)>> \o InsertByDay(Tail(sorted), x, objs)
         ELSE <<x>> \o sorted

\* the list left in insertion order
SortByDayNone(list, objs) == list

RECURSIVE SortByDay(_, _)
\* sessions.sort(key=lambda s: day_index.get(s.day, 99)): stable, ascending;
\* list is a sequence of refs into objs
SortByDay(list, objs) ==
    IF list = <<>> THEN <<>>
    ELSE InsertByDay(SortByDay(SubSeq(list, 1, Len(list) - 1), objs), list[Len(list)], objs)

\* ------------------------------------------------------ float arithmetic
\* int(last_week_load * 1.10).  The double 1.10 is 1.1 * (1 + 8.07e-17), so
\* the product lies above 11x/10 by less than 1e-12 for the loads modelled
\* and its truncation is the integer floor of 11x/10.
TruncTimes110(x) == (x * 11) \div 10

\* int(l * (a / c)) for integers l >= 0 and 0 < a < c, in IEEE-754 double
\* arithmetic with round-to-nearest.  factor = a / c is the 53-bit mantissa
\* m = round(a * 2^k / c) scaled by 2^-k, k = 52 + j, 2^-j <= a/c < 2^(1-j).
\* When c does not divide l * a the product is at least 1/c away from an
\* integer and truncates to the floor.  When it does, the exact quotient is
\* q; the factor was rounded down iff the remainder r of a * 2^k by c
\* satisfies 0 < 2r < c, the product is then q - l*r/(c*2^k), and it rounds
\* to a double below q (truncating to q - 1) iff that deficit exceeds half
\* the spacing of the doubles below q.
TruncTimesFactor(l, a, c) ==
    LET q == (l * a) \div c
        j == FactorExp(a, c, 1)
        r == (a * Pow2Mod(52 + j, c)) % c
        E == FloorLog2(q)
        half == IF q = Pow2(E) THEN c * Pow2(j + E - 1) ELSE c * Pow2(j + E)
    IN  IF (l * a) % c # 0 \/ q = 0 THEN q
        ELSE IF r = 0 \/ 2 * r >= c THEN q
        ELSE IF 2 * l * r > half THEN q - 1 ELSE q

\* ---------------------------------------------------------- SessionPlan
\* @dataclass SessionPlan; focus and notes are sequences of string pieces
SessionPlan(day, focus, intensity, duration_min, load_units, notes) ==
    [day |-> day, focus |-> focus, intensity |-> intensity,
     duration_min |-> duration_min, load_units |-> load_units, notes |-> notes]

\* ------------------------------------------------------ boxing templates
NoviceTemplates(contraindications) == <<
    SessionPlan("Tue", <<"Boxing basics: stance, guard & straight punches">>,
        "Easy-Moderate", 25, 30,
        <<"Warm-up: 5 min skipping or brisk walk.\n",
          "Technique: 4 x 2 min shadow boxing (jab-cross, basic guard) with 1 min rest.\n",
          "Bag/pillow: 4 x 1 min straight punches, light power.\n",
          "Cool-down: 5 min shoulder, wrist and calf stretches.\n",
          "Contraindications to watch: ", OrDefault(contraindications, "None stated"), ".">>),
    SessionPlan("Thu", <<"Footwork & defence foundations">>,
        "Moderate", 25, 35,
        <<"Warm-up: 5 min dynamic mobility (hips, ankles, shoulders).\n",
          "Main: 4 x 2 min shadow boxing with basic steps (forward/back/side) and guard up.\n",
          "Defence drill: 3 x 2 min slip/duck movements in front of mirror or wall.\n",
          "Core: 3 x 20 s plank, 20 s rest.\n",
          "Cool-down: 5 min relaxed walk + breathing.\n",
          "Avoid any movements that aggravate: ", OrDefault(contraindications, "None"), ".">>),
    SessionPlan("Sat", <<"Conditioning: simple intervals + technique">>,
        "Moderate", 30, 40,
        <<"Warm-up: 5 min skipping or light jog.\n",
          "Intervals: 6 x 30 s fast straight punches (shadow or bag) + 60 s easy movement.\n",
          "Technique: 4 x 2 min shadow boxing, mixing punches with basic defence.\n",
          "Cool-down: 5-8 min stretch (hips, hamstrings, shoulders).\n",
          "Stop if pain or dizziness occurs, especially given: ",
          OrDefault(contraindications, "no stated issues"), ".">>) >>

IntermediateTemplates(contraindications) == <<
    SessionPlan("Mon", <<"Technical combinations & footwork">>,
        "Moderate-Hard", 35, 55,
        <<"Warm-up: 5 min skipping + joint mobility.\n",
          "Combos on bag/shadow: 5 x 3 min (jab-cross-hook, jab-cross-cross-hook), ",
          "60-90 s rest.\n",
          "Footwork rounds: 3 x 2 min circling and cutting the ring.\n",
          "Cool-down: 5 min light walk + stretching.\n",
          "Modify combinations if they aggravate: ", OrDefault(contraindications, "None"), ".">>),
    SessionPlan("Wed", <<"Defence, counters & core">>,
        "Moderate", 35, 50,
        <<"Warm-up: 5 min dynamic warm-up.\n",
          "Defence rounds: 4 x 3 min slips, ducks, parries, then counter 1-2 punches.\n",
          "Shadow or bag work: 3 x 2 min focusing on clean form at moderate pace.\n",
          "Core circuit: 3 rounds (20 s plank, 10 sit-ups, 10 Russian twists), 60 s rest.\n",
          "Respect pain or previous issues: ", OrDefault(contraindications, "None"), ".">>),
    SessionPlan("Fri", <<"Conditioning: intervals & power focus">>,
        "Hard", 35, 60,
        <<"Warm-up: 5-7 min.\n",
          "Intervals: 8 x 30 s high-output bag punching (all punches) + 60 s light movement.\n",
          "Power focus: 3 x 2 min heavier single shots and 2-3 punch combinations.\n",
          "Cool-down: 5-8 min stretching & breathing.\n",
          "Keep technique tidy; reduce power if form breaks under fatigue.">>) >>

AdvancedTemplates(contraindications) == <<
    SessionPlan("Tue", <<"High-complexity combinations & movement">>,
        "Hard", 40, 70,
        <<"Warm-up: 8 min mixed skipping + mobility.\n",
          "Complex combos: 5 x 3 min on bag/pads, mixing level changes and angles.\n",
          "Footwork intensity: 3 x 2 min high-tempo ring movement.\n",
          "Cool-down: 5-8 min mobility & stretch.\n",
          "Monitor joints and previous issues: ",
          OrDefault(contraindications, "None declared"), ".">>),
    SessionPlan("Thu", <<"Defence, counters & conditioning mixed">>,
        "Hard", 40, 70,
        <<"Warm-up: 6-8 min.\n",
          "Defence & counter rounds: 4 x 3 min with slips, blocks and quick counters.\n",
          "Conditioning: 6 x 30 s punch sprints + 60 s active rest.\n",
          "Core & stability: 3 x 30 s plank variations.\n",
          "Cool-down as normal; adjust if any warning signs.">>),
    SessionPlan("Sat", <<"Mixed technical conditioning (no full sparring)">>,
        "Moderate-Hard", 40, 65,
        <<"Warm-up: 6-8 min.\n",
          "Shadow rounds: 3 x 3 min visualising an opponent.\n",
          "Bag rounds: 4 x 3 min mixing power and volume.\n",
          "Cool-down: 5-8 min.\n",
          "If usually sparring, this tool deliberately avoids contact to reduce risk.">>) >>

\* the level branches of generate_boxing_sessions_template
BoxingTemplates(level, contraindications) ==
    IF Lower(level) = StrNovice THEN NoviceTemplates(contraindications)
    ELSE IF Lower(level) = StrIntermediate THEN IntermediateTemplates(contraindications)
    ELSE AdvancedTemplates(contraindications)

\* the slice taking one entry too many
TemplateRefsOneMore(k, sessions_per_week) ==
    IF sessions_per_week <= k
    THEN [i \in 1..Min(sessions_per_week + 1, k) |-> i]
    ELSE [i \in 1..sessions_per_week |-> IF i <= k THEN i ELSE 1]

\* the refs of the list before sorting: templates[:n], or a copy of the
\* list with templates[0] (ref 1, the same object) appended until n long
TemplateRefs(k, sessions_per_week) ==
    IF sessions_per_week <= k
    THEN [i \in 1..sessions_per_week |-> i]
    ELSE [i \in 1..sessions_per_week |-> IF i <= k THEN i ELSE 1]

\* generate_boxing_sessions_template: objs is the heap of template
\* objects, list the returned list of refs
GenerateBoxingSessionsTemplate(level, sessions_per_week, contraindications) ==
    LET templates == BoxingTemplates(level, contraindications)
    IN  [objs |-> templates,
         list |-> SortByDay(TemplateRefs(Len(templates), sessions_per_week), templates)]

\* generate_generic_sessions_template: one fresh object per index, not sorted
GenerateGenericSessionsTemplate(sport, level, sessions_per_week, contraindications) ==
    LET objs == [n \in 1..sessions_per_week |->
                    SessionPlan(DAYS_ORDER[(((n - 1) * 2) % Len(DAYS_ORDER)) + 1],
                        sport \o <<" conditioning session ", ToString(n)>>,
                        "Moderate", 30, 40,
                        <<"Warm-up: 5-10 min easy movement.\n",
                          "Main: intervals or tempo work relevant to the sport.\n",
                          "Cool-down: 5-10 min mobility & stretching.\n",
                          "Contraindications to respect: ",
                          OrDefault(contraindications, "None stated"), ".">>)]
    IN  [objs |-> objs, list |-> [n \in 1..sessions_per_week |-> n]]

\* --------------------------------------------------- generate_sessions_ai
\* A field of a response item: present says whether the key is in the dict.
Field(val) == [present |-> TRUE, val |-> val]
NoField(val) == [present |-> FALSE, val |-> val]

\* item.get(key, default)
ItemGet(field, default) == IF field.present THEN field.val ELSE default

\* A JSON value for duration_min: a number in tenths (300 is 30.0), or a
\* text that int() rejects.  int() truncates a number toward zero.
Number(tenths) == [coercible |-> TRUE, tenths |-> tenths]
BadNumber == [coercible |-> FALSE, tenths |-> 0]
PyInt(v) == IF v.tenths >= 0 THEN v.tenths \div 10 ELSE -((-v.tenths) \div 10)

\* if day not in DAYS_ORDER: day = "Mon"
CanonicalDay(day) == IF InDaysOrder(day) THEN day ELSE "Mon"

RECURSIVE FirstFreeOffset(_, _, _)
\* the first offset in offset..6 whose candidate day is unused, else 7
FirstFreeOffset(base_index, used_days, offset) ==
    IF offset >= Len(DAYS_ORDER) THEN offset
    ELSE IF DAYS_ORDER[((base_index + offset) % Len(DAYS_ORDER)) + 1] \notin used_days
         THEN offset
         ELSE FirstFreeOffset(base_index, used_days, offset + 1)

\* the day kept as given, without the scan for an unused one
ResolveDayKeep(day, used_days) == day

\* the `for offset in range(len(DAYS_ORDER))` scan: the first unused day at
\* or cyclically after day; when all seven are used the day is kept
ResolveDay(day, used_days) ==
    LET base_index == DaysIndex(day)
        offset == FirstFreeOffset(base_index, used_days, 0)
    IN  IF offset < Len(DAYS_ORDER)
        THEN DAYS_ORDER[((base_index + offset) % Len(DAYS_ORDER)) + 1]
        ELSE day

\* intensity = item.get("intensity", "Moderate").title(); anything outside
\* Easy / Moderate / Hard becomes Moderate
SanitizeIntensity(field) ==
    LET intensity == Title(ItemGet(field, StrModerate))
    IN  IF intensity = StrEasy THEN "Easy"
        ELSE IF intensity = StrHard THEN "Hard"
        ELSE "Moderate"

\* the clamp without its lower bound
ClampDurationUpperOnly(duration) == Min(60, duration)

\* duration = max(20, min(60, duration))
ClampDuration(duration) == Max(20, Min(60, duration))

\* {"Easy": 1, "Moderate": 2, "Hard": 3}.get(intensity, 2)
IntensityFactor(intensity) ==
    IF intensity = "Easy" THEN 1
    ELSE IF intensity = "Moderate" THEN 2
    ELSE IF intensity = "Hard" THEN 3
    ELSE 2

\* the safety postscript appended to the notes of an AI session
AIPostscript(contraindications) ==
    <<"\n\nIf anything feels sharp, unusual or worrying, stop or reduce intensity. ",
      "Context to remember: ", OrDefault(contraindications, "no specific issues noted"), ".">>

\* one iteration of `for item in sessions_data`, after the break test:
\* TRUE iff the body raises (item is not a dict, int() fails)
ItemRaises(item) ==
    \/ ~item.is_dict
    \/ ~ItemGet(item.duration_min, Number(300)).coercible

\* the SessionPlan the loop body builds from item
SanitizeItem(item, used_days, sport, contraindications) ==
    LET day == ResolveDay(CanonicalDay(ItemGet(item.day, "Mon")), used_days)
        intensity == SanitizeIntensity(item.intensity)
        duration == ClampDuration(PyInt(ItemGet(item.duration_min, Number(300))))
    IN  SessionPlan(day,
            ItemGet(item.focus, sport \o <<" session">>),
            intensity, duration,
            IntensityFactor(intensity) * duration,
            <<ItemGet(item.notes, "")>> \o AIPostscript(contraindications))

\* used_days after the body: the resolved day is added only when the scan
\* found an unused one
UsedAfter(item, used_days) ==
    LET day == CanonicalDay(ItemGet(item.day, "Mon"))
    IN  IF FirstFreeOffset(DaysIndex(day), used_days, 0) < Len(DAYS_ORDER)
        THEN used_days \cup {ResolveDay(day, used_days)}
        ELSE used_days

RECURSIVE AILoop(_, _, _, _, _, _)
\* the loop over sessions_data from item i on; sessions is the list built
\* so far.  Result: [raised, sessions].
AILoop(items, i, sessions, used_days, sessions_per_week, ctx) ==
    IF i > Len(items) \/ Len(sessions) >= sessions_per_week
    THEN [raised |-> FALSE, sessions |-> sessions]
    ELSE IF ItemRaises(items[i])
    THEN [raised |-> TRUE, sessions |-> sessions]
    ELSE AILoop(items, i + 1,
            Append(sessions, SanitizeItem(items[i], used_days, ctx.sport, ctx.contraindications)),
            UsedAfter(items[i], used_days), sessions_per_week, ctx)

\* data.get("sessions", [])
SessionsData(response) ==
    IF response.kind = "no_sessions_key" THEN <<>> ELSE response.sessions

\* the value generate_sessions_ai returns: none is TRUE for None, else objs
\* are the SessionPlan objects in creation order and list the sorted refs
\* A response is [kind, sessions]: kind "error" when the API call or
\* json.loads raises, "no_sessions_key" for an object without the key,
\* "sessions_not_list" for a value whose iteration or items raise, and
\* "sessions_list" for a list of items.
AINone == [none |-> TRUE, objs |-> <<>>, list |-> <<>>]

\* the except clause keeping the sessions built before the failure
GenerateSessionsAIKeepPartial(available, response, sport, level, sessions_per_week, last_week_load, contraindications) ==
    IF ~available THEN AINone
    ELSE IF response.kind \in {"error", "sessions_not_list"} THEN AINone
    ELSE LET loop == AILoop(SessionsData(response), 1, <<>>, {}, sessions_per_week,
                        [sport |-> sport, contraindications |-> contraindications])
         IN  IF loop.sessions = <<>> THEN AINone
             ELSE [none |-> FALSE, objs |-> loop.sessions,
                   list |-> SortByDay([n \in 1..Len(loop.sessions) |-> n], loop.sessions)]

GenerateSessionsAI(available, response, sport, level, sessions_per_week, last_week_load, contraindications) ==
    IF ~available THEN AINone
    ELSE IF response.kind \in {"error", "sessions_not_list"} THEN AINone
    ELSE LET loop == AILoop(SessionsData(response), 1, <<>>, {}, sessions_per_week,
                        [sport |-> sport, contraindications |-> contraindications])
         IN  IF loop.raised THEN AINone
             ELSE IF loop.sessions = <<>> THEN AINone
             ELSE [none |-> FALSE, objs |-> loop.sessions,
                   list |-> SortByDay([n \in 1..Len(loop.sessions) |-> n], loop.sessions)]

\* -------------------------------------------- apply_weekly_load_guardrail
RECURSIVE SumLoads(_, _, _)
\* sum(s.load_units for s in sessions), from position i on
SumLoads(objs, list, i) ==
    IF i > Len(list) THEN 0 ELSE objs[list[i]].load_units + SumLoads(objs, list, i + 1)

\* the ceiling with the product rounded instead of truncated
AllowedMaxRounded(last_week_load) ==
    Max(RoundDiv(last_week_load * 11, 10), last_week_load + 20)

\* allowed_max = max(int(last_week_load * 1.10), last_week_load + 20)
AllowedMax(last_week_load) == Max(TruncTimes110(last_week_load), last_week_load + 20)

\* the scaled load without the floor of 20
ScaledLoadNoFloor(load_units, allowed, total) == TruncTimesFactor(load_units, allowed, total)

\* the floor applied to the load itself, the factor forgotten
ScaledLoadUnscaled(load_units, allowed, total) == Max(20, load_units)

\* max(20, int(s.load_units * factor)) with factor = allowed_max / current_total
ScaledLoad(load_units, allowed, total) == Max(20, TruncTimesFactor(load_units, allowed, total))

LoadCheckNote(total, last_week_load) ==
    <<"\n\nLoad check: planned weekly load ", ToString(total), " vs last week ",
      ToString(last_week_load), " (within approximately +10% rule).">>

GuardrailNote(last_week_load, allowed) ==
    <<"\n\nLoad guardrail applied: weekly load reduced to stay within +10% of last week (",
      ToString(last_week_load), " -> target <= ", ToString(allowed), ").">>

\* the loop body assigning the annotation instead of appending it
ScaleSessionOverwrite(s, last_week_load, allowed, total) ==
    [s EXCEPT !.load_units = ScaledLoad(s.load_units, allowed, total),
              !.notes = GuardrailNote(last_week_load, allowed)]

\* the body of `for s in sessions` on the object at one position
ScaleSession(s, last_week_load, allowed, total) ==
    [s EXCEPT !.load_units = ScaledLoad(s.load_units, allowed, total),
              !.notes = s.notes \o GuardrailNote(last_week_load, allowed)]

RECURSIVE ScaleLoop(_, _, _, _, _, _)
\* `for s in sessions` from position i on: each position updates the object
\* it refers to, in place
ScaleLoop(objs, list, i, last_week_load, allowed, total) ==
    IF i > Len(list) THEN objs
    ELSE ScaleLoop([objs EXCEPT ![list[i]] = ScaleSession(objs[list[i]], last_week_load, allowed, total)],
                   list, i + 1, last_week_load, allowed, total)

\* apply_weekly_load_guardrail(sessions, last_week_load): the heap after
\* the call, or raised when sessions[0] fails on an empty list
\* the early return taken only for a negative prior load
ApplyWeeklyLoadGuardrailNegativeOnly(objs, list, last_week_load) ==
    LET total == SumLoads(objs, list, 1)
        allowed == AllowedMax(last_week_load)
    IN  IF last_week_load < 0 THEN [raised |-> FALSE, objs |-> objs]
        ELSE IF total <= allowed
        THEN IF list = <<>> THEN [raised |-> TRUE, objs |-> objs]
             ELSE [raised |-> FALSE,
                   objs |-> [objs EXCEPT ![list[1]].notes = @ \o LoadCheckNote(total, last_week_load)]]
        ELSE [raised |-> FALSE,
              objs |-> ScaleLoop(objs, list, 1, last_week_load, allowed, total)]

ApplyWeeklyLoadGuardrail(objs, list, last_week_load) ==
    LET total == SumLoads(objs, list, 1)
        allowed == AllowedMax(last_week_load)
    IN  IF last_week_load <= 0 THEN [raised |-> FALSE, objs |-> objs]
        ELSE IF total <= allowed
        THEN IF list = <<>> THEN [raised |-> TRUE, objs |-> objs]
             ELSE [raised |-> FALSE,
                   objs |-> [objs EXCEPT ![list[1]].notes = @ \o LoadCheckNote(total, last_week_load)]]
        ELSE [raised |-> FALSE,
              objs |-> ScaleLoop(objs, list, 1, last_week_load, allowed, total)]

\* ------------------------------------------- analyse_adherence_and_rpe
\* the nearest integer to num / den, a tie going to the even one: what
\* f"{x:.0f}" and f"{x:.1f}" print for the quotients of the small counts
\* and sums of a form, where every tie is an exact double
RoundHalfEven(num, den) ==
    LET q == num \div den
        r == num % den
    IN  IF 2 * r < den THEN q
        ELSE IF 2 * r > den THEN q + 1
        ELSE IF q % 2 = 0 THEN q ELSE q + 1

\* f"{avg_rpe:.1f}" from the number of tenths
FormatOneDecimal(tenths) == <<ToString(tenths \div 10), ".", ToString(tenths % 10)>>

\* completed = [d for d in adherence_data if d.get("completed")]
CompletedOf(adherence_data) == SelectSeq(adherence_data, LAMBDA d : d.completed)

\* rpes = [d["rpe"] for d in completed if isinstance(d.get("rpe"), int)]
Rpes(completed) ==
    LET kept == SelectSeq(completed, LAMBDA d : d.rpe \in Int)
    IN  [i \in 1..Len(kept) |-> kept[i].rpe]

RECURSIVE SumSeq(_)
\* sum(rpes)
SumSeq(rpes) == IF rpes = <<>> THEN 0 ELSE Head(rpes) + SumSeq(Tail(rpes))

StrReduce ==
    <<" That is quite high. Next week, it may be safer to hold or slightly ",
      "reduce intensity rather than pushing further.">>
StrProgress ==
    <<" Effort scores are low and consistency is good. A small progression ",
      "next week may be reasonable if everything feels comfortable.">>
StrAppropriate ==
    <<" Effort looks broadly appropriate. Keep aiming for this balance of challenge and control.">>

\* the branch on the average being at least 8 taken only above 8
AdherenceCommentStrictHigh(rpe_sum, rpe_count, done, total) ==
    IF rpe_sum > 8 * rpe_count THEN StrReduce
    ELSE IF rpe_sum <= 3 * rpe_count /\ 10 * done >= 7 * total THEN StrProgress
    ELSE StrAppropriate

\* if avg_rpe >= 8 / elif avg_rpe <= 3 and comp_rate >= 0.7 / else, with
\* avg_rpe = rpe_sum / rpe_count and comp_rate = done / total
AdherenceComment(rpe_sum, rpe_count, done, total) ==
    IF rpe_sum >= 8 * rpe_count THEN StrReduce
    ELSE IF rpe_sum <= 3 * rpe_count /\ 10 * done >= 7 * total THEN StrProgress
    ELSE StrAppropriate

\* the value None, and a returned string as the list msg_parts it joins
NoSummary == [none |-> TRUE, msg_parts |-> <<>>]

AnalyseAdherenceAndRpe(adherence_data) ==
    IF adherence_data = <<>> THEN NoSummary
    ELSE
        LET completed == CompletedOf(adherence_data)
            total == Len(adherence_data)
            rpes == Rpes(completed)
            first == <<"You completed ", ToString(Len(completed)), " of ", ToString(total),
                       " sessions ", "(", ToString(RoundHalfEven(100 * Len(completed), total)),
                       "% adherence).">>
        IN  [none |-> FALSE,
             msg_parts |->
                IF rpes = <<>> THEN <<first>>
                ELSE <<first,
                       <<" Average effort on completed sessions was about ">>
                           \o FormatOneDecimal(RoundHalfEven(10 * SumSeq(rpes), Len(rpes)))
                           \o <<"/10.">>,
                       AdherenceComment(SumSeq(rpes), Len(rpes), Len(completed), total)>>]

\* ------------------------------------------------------------- inputs
StrBoxing == <<"B", "o", "x", "i", "n", "g">>
StrRunning == <<"R", "u", "n", "n", "i", "n", "g">>
Sports == {StrBoxing, StrRunning}

Levels == {<<"N", "o", "v", "i", "c", "e">>,
           <<"I", "n", "t", "e", "r", "m", "e", "d", "i", "a", "t", "e">>,
           <<"A", "d", "v", "a", "n", "c", "e", "d">>}

ContraindicationTexts == {"", " ", "knee pain"}

\* prior-week loads: unknown, tiny, the spec's example, one whose scaled
\* intermediate load is a whole number the float product misses, one that
\* meets the padded novice plan exactly, one above 200 where +10% wins
LastWeekLoads == {0, 1, 50, 64, 115, 207}

RawItem(day, focus, intensity, duration_min, load_units, notes) ==
    [is_dict |-> TRUE, day |-> day, focus |-> focus, intensity |-> intensity,
     duration_min |-> duration_min, load_units |-> load_units, notes |-> notes]

\* Sun, lower-case hard, 95.5 minutes, a load the code must ignore
ItemSunHard ==
    RawItem(Field("Sun"), Field(<<"Hill sprints">>), Field(<<"h", "a", "r", "d">>),
            Field(Number(955)), Field(5), Field("Warm-up, main, cool-down."))
\* a day outside the canonical set, a compound intensity, no duration
ItemOddDay ==
    RawItem(Field("Funday"), NoField(<<>>),
            Field(<<"e", "a", "s", "y", "-", "m", "o", "d", "e", "r", "a", "t", "e">>),
            NoField(Number(0)), Field(999), NoField(""))
\* no day, upper-case EASY, 5 minutes
ItemNoDay ==
    RawItem(NoField(""), Field(<<"Recovery walk">>), Field(<<"E", "A", "S", "Y">>),
            Field(Number(50)), NoField(0), Field("Easy walk."))
\* no intensity, a duration int() rejects
ItemBadDuration ==
    RawItem(Field("Wed"), Field(<<"Tempo">>), NoField(<<>>),
            Field(BadNumber), NoField(0), Field(""))

RawItems == {ItemSunHard, ItemOddDay, ItemNoDay, ItemBadDuration}
AIRawItems == {ItemSunHard, ItemOddDay, ItemNoDay}

ListResponse(items) == [kind |-> "sessions_list", sessions |-> items]
OtherResponse(kind) == [kind |-> kind, sessions |-> <<>>]

\* the responses of the pipeline runs
Responses ==
    {OtherResponse(k) : k \in {"error", "no_sessions_key", "sessions_not_list"}}
    \cup {ListResponse(items) : items \in UNION {[1..n -> RawItems] : n \in 0..MaxItems}}

\* one row of the adherence form: the checkbox and the RPE number input
AdherenceEntries ==
    {[completed |-> TRUE, rpe |-> r] : r \in 0..10} \cup
    {[completed |-> FALSE, rpe |-> r] : r \in {0, 9}}

\* --------------------------------------------------------------- state
VARIABLES
    sport, level, sessions_per_week, last_week_load, contraindications,
    OPENAI_AVAILABLE,   \* module global set at import
    response,           \* what the model answers to this request
    pc,                 \* position in generate_week_plan / generate_sessions_ai
    ai_sessions,        \* value returned by generate_sessions_ai
    heap,               \* the SessionPlan objects, by ref
    sessions,           \* the local `sessions`: a sequence of refs
    selected,           \* the list handed to the guardrail, as it was then
    calls,              \* the functions called so far, in order
    current_total, allowed_max,  \* locals of apply_weekly_load_guardrail
    adherence_data,     \* the rows collected by the adherence form
    summary             \* value returned by analyse_adherence_and_rpe

vars == <<sport, level, sessions_per_week, last_week_load, contraindications,
          OPENAI_AVAILABLE, response, pc, ai_sessions, heap, sessions, selected,
          calls, current_total, allowed_max, adherence_data, summary>>

adherence == <<adherence_data, summary>>

inputs == <<sport, level, sessions_per_week, last_week_load, contraindications,
            OPENAI_AVAILABLE>>

NoPlan == [objs |-> <<>>, list |-> <<>>]

Init ==
    /\ sport \in Sports
    /\ level \in Levels
    /\ sessions_per_week \in 0..MaxSessions
    /\ last_week_load \in LastWeekLoads
    /\ contraindications \in ContraindicationTexts
    /\ OPENAI_AVAILABLE \in BOOLEAN
    /\ response = OtherResponse("error")
    /\ pc = "start"
    /\ ai_sessions = AINone
    /\ heap = <<>>
    /\ sessions = <<>>
    /\ selected = NoPlan
    /\ calls = <<>>
    /\ current_total = 0
    /\ allowed_max = 0
    /\ adherence_data = <<>>
    /\ summary = NoSummary

\* generate_week_plan, the call of generate_sessions_ai.  The model's answer
\* is only read when the client is available.
CallGenerateSessionsAI ==
    /\ pc = "start"
    /\ \E r \in Responses :
         /\ OPENAI_AVAILABLE \/ r = OtherResponse("error")
         /\ response' = r
         /\ ai_sessions' = GenerateSessionsAI(OPENAI_AVAILABLE, r, sport, level,
                              sessions_per_week, last_week_load, contraindications)
    /\ calls' = Append(calls, "generate_sessions_ai")
    /\ pc' = "ai_returned"
    /\ UNCHANGED <<inputs, adherence, heap, sessions, selected, current_total, allowed_max>>

\* the test of the AI result inverted
AITruthyInverted(result) == result.none \/ result.list = <<>>

\* `if ai_sessions:` is false for None and for an empty list
AITruthy(result) == ~result.none /\ result.list # <<>>

\* if ai_sessions: sessions = ai_sessions
UseAISessions ==
    /\ pc = "ai_returned"
    /\ AITruthy(ai_sessions)
    /\ heap' = ai_sessions.objs
    /\ sessions' = ai_sessions.list
    /\ selected' = [objs |-> ai_sessions.objs, list |-> ai_sessions.list]
    /\ pc' = "selected"
    /\ UNCHANGED <<inputs, adherence, response, ai_sessions, calls, current_total, allowed_max>>

\* else, sport_lower == "boxing": generate_boxing_sessions_template
CallBoxingTemplate ==
    /\ pc = "ai_returned"
    /\ ~AITruthy(ai_sessions)
    /\ Lower(sport) = StrBoxingLower
    /\ LET plan == GenerateBoxingSessionsTemplate(level, sessions_per_week, contraindications)
       IN  /\ heap' = plan.objs
           /\ sessions' = plan.list
           /\ selected' = plan
    /\ calls' = Append(calls, "generate_boxing_sessions_template")
    /\ pc' = "selected"
    /\ UNCHANGED <<inputs, adherence, response, ai_sessions, current_total, allowed_max>>

\* else: generate_generic_sessions_template
CallGenericTemplate ==
    /\ pc = "ai_returned"
    /\ ~AITruthy(ai_sessions)
    /\ Lower(sport) # StrBoxingLower
    /\ LET plan == GenerateGenericSessionsTemplate(sport, level, sessions_per_week, contraindications)
       IN  /\ heap' = plan.objs
           /\ sessions' = plan.list
           /\ selected' = plan
    /\ calls' = Append(calls, "generate_generic_sessions_template")
    /\ pc' = "selected"
    /\ UNCHANGED <<inputs, adherence, response, ai_sessions, current_total, allowed_max>>

\* sessions = apply_weekly_load_guardrail(sessions, last_week_load); return
CallGuardrail ==
    /\ pc = "selected"
    /\ LET result == ApplyWeeklyLoadGuardrail(heap, sessions, last_week_load)
       IN  /\ heap' = result.objs
           /\ pc' = IF result.raised THEN "raised" ELSE "returned"
    /\ current_total' = IF last_week_load <= 0 THEN current_total ELSE SumLoads(heap, sessions, 1)
    /\ allowed_max' = IF last_week_load <= 0 THEN allowed_max ELSE AllowedMax(last_week_load)
    /\ calls' = Append(calls, "apply_weekly_load_guardrail")
    /\ UNCHANGED <<inputs, adherence, response, ai_sessions, sessions, selected>>

Next ==
    \/ CallGenerateSessionsAI
    \/ UseAISessions
    \/ CallBoxingTemplate
    \/ CallGenericTemplate
    \/ CallGuardrail

Spec == Init /\ [][Next]_vars

\* ------------------------------------- generate_sessions_ai on its own
\* The model's answer is a list that grows item by item; the function is
\* then applied to the whole answer.
InitAI ==
    /\ sport = StrRunning
    /\ level = <<"N", "o", "v", "i", "c", "e">>
    /\ sessions_per_week \in 0..MaxCount
    /\ last_week_load = 0
    /\ contraindications = ""
    /\ OPENAI_AVAILABLE = TRUE
    /\ response = ListResponse(<<>>)
    /\ pc = "ai_request"
    /\ ai_sessions = AINone
    /\ heap = <<>>
    /\ sessions = <<>>
    /\ selected = NoPlan
    /\ calls = <<>>
    /\ current_total = 0
    /\ allowed_max = 0
    /\ adherence_data = <<>>
    /\ summary = NoSummary

\* the external service adds one more item to its answer
ModelEmitsItem ==
    /\ pc = "ai_request"
    /\ Len(response.sessions) < MaxCount
    /\ \E item \in AIRawItems : response' = ListResponse(Append(response.sessions, item))
    /\ UNCHANGED <<inputs, adherence, pc, ai_sessions, heap, sessions, selected, calls,
                   current_total, allowed_max>>

\* generate_sessions_ai(sport, level, sessions_per_week, last_week_load, contraindications)
RunGenerateSessionsAI ==
    /\ pc = "ai_request"
    /\ ai_sessions' = GenerateSessionsAI(OPENAI_AVAILABLE, response, sport, level,
                          sessions_per_week, last_week_load, contraindications)
    /\ calls' = Append(calls, "generate_sessions_ai")
    /\ pc' = "ai_done"
    /\ UNCHANGED <<inputs, adherence, response, heap, sessions, selected, current_total, allowed_max>>

NextAI == ModelEmitsItem \/ RunGenerateSessionsAI

SpecAI == InitAI /\ [][NextAI]_vars

\* ------------------------------------------------- the adherence form
InitAdherence ==
    /\ sport = StrBoxing
    /\ level = <<"N", "o", "v", "i", "c", "e">>
    /\ sessions_per_week = 3
    /\ last_week_load = 0
    /\ contraindications = ""
    /\ OPENAI_AVAILABLE = FALSE
    /\ response = OtherResponse("error")
    /\ pc = "adherence_form"
    /\ ai_sessions = AINone
    /\ heap = <<>>
    /\ sessions = <<>>
    /\ selected = NoPlan
    /\ calls = <<>>
    /\ current_total = 0
    /\ allowed_max = 0
    /\ adherence_data = <<>>
    /\ summary = NoSummary

\* adherence_data.append({"completed": done, "rpe": rpe})
AppendAdherenceEntry ==
    /\ pc = "adherence_form"
    /\ Len(adherence_data) < MaxEntries
    /\ \E entry \in AdherenceEntries : adherence_data' = Append(adherence_data, entry)
    /\ UNCHANGED <<inputs, response, pc, ai_sessions, heap, sessions, selected, calls,
                   current_total, allowed_max, summary>>

\* summary = analyse_adherence_and_rpe(adherence_data)
CallAnalyseAdherenceAndRpe ==
    /\ pc = "adherence_form"
    /\ summary' = AnalyseAdherenceAndRpe(adherence_data)
    /\ calls' = Append(calls, "analyse_adherence_and_rpe")
    /\ pc' = "adherence_done"
    /\ UNCHANGED <<inputs, response, ai_sessions, heap, sessions, selected,
                   current_total, allowed_max, adherence_data>>

NextAdherence == AppendAdherenceEntry \/ CallAnalyseAdherenceAndRpe

SpecAdherence == InitAdherence /\ [][NextAdherence]_vars

\* ======================================================== properties
Returned == pc = "returned"

\* the load and the notes of the session at position i of the plan, before
\* and after the guardrail
LoadBefore(i) == selected.objs[selected.list[i]].load_units
LoadAfter(i) == heap[sessions[i]].load_units
NotesBefore(i) == selected.objs[selected.list[i]].notes
NotesAfter(i) == heap[sessions[i]].notes
TotalBefore == SumLoads(selected.objs, selected.list, 1)
TotalAfter == SumLoads(heap, sessions, 1)

IsPrefix(a, b) == Len(a) <= Len(b) /\ SubSeq(b, 1, Len(a)) = a

\* the guardrail took its scaling branch / its within-band branch
ScalingBranch == last_week_load > 0 /\ current_total > allowed_max
WithinBranch == last_week_load > 0 /\ current_total <= allowed_max

\* position i carries the guardrail-applied annotation right after its old notes
Annotated(i) ==
    /\ Len(NotesAfter(i)) > Len(NotesBefore(i))
    /\ NotesAfter(i)[Len(NotesBefore(i)) + 1] = GuardrailNote(last_week_load, allowed_max)[1]

\* number of positions of the list that hold ref r
Occurrences(list, r) == Cardinality({i \in 1..Len(list) : list[i] = r})

IsNovice3Unavailable ==
    /\ sport = StrBoxing
    /\ level = <<"N", "o", "v", "i", "c", "e">>
    /\ sessions_per_week = 3
    /\ ~OPENAI_AVAILABLE

PlanLoads == [i \in 1..Len(sessions) |-> LoadAfter(i)]

\* C1: after generate_week_plan returns with last_week_load > 0, the sum of
\* load_units of the returned sessions is at most allowed_max.
C1_WeeklyCapHolds ==
    (Returned /\ last_week_load > 0) => TotalAfter <= allowed_max

\* C2 as stated: on the scaling branch every session ends with
\* load_units = max(20, round(old_load * allowed_max / current_total)), and
\* Boxing / Novice / 3 / AI unavailable / last_week_load 50 gives
\* allowed_max 70 and loads [20, 23, 27].
C2_RoundedScaling ==
    (Returned /\ ScalingBranch) =>
        /\ \A i \in 1..Len(sessions) :
              LoadAfter(i) = Max(20, RoundDiv(LoadBefore(i) * allowed_max, current_total))
        /\ (IsNovice3Unavailable /\ last_week_load = 50) =>
              (allowed_max = 70 /\ PlanLoads = <<20, 23, 27>>)

\* one application of the scaling to load x, stated on integers: the floor
\* of x * allowed / total, or one less when that quotient is a whole number
\* (the float product may fall just below it), and never under 20
TruncatedLoads(x, allowed, total) ==
    {Max(20, (x * allowed) \div total)} \cup
    (IF (x * allowed) % total = 0 THEN {Max(20, ((x * allowed) \div total) - 1)} ELSE {})

RECURSIVE TruncatedLoadsAfter(_, _, _, _)
\* the loads possible after k applications
TruncatedLoadsAfter(xs, k, allowed, total) ==
    IF k = 0 THEN xs
    ELSE TruncatedLoadsAfter(UNION {TruncatedLoads(x, allowed, total) : x \in xs},
                             k - 1, allowed, total)

\* C2 amended: on the scaling branch the guardrail applies
\* x -> max(20, int(x * allowed_max / current_total)), truncating instead of
\* rounding, once for every list position to the record at that position;
\* a record at one position ends with one application to its old load, and
\* Boxing / Novice / 3 / AI unavailable / last_week_load 50 gives
\* allowed_max 70 and loads [20, 23, 26].
C2_TruncatedScaling ==
    (Returned /\ ScalingBranch) =>
        /\ \A i \in 1..Len(sessions) :
              LoadAfter(i) \in TruncatedLoadsAfter({LoadBefore(i)},
                                  Occurrences(sessions, sessions[i]), allowed_max, current_total)
        /\ (IsNovice3Unavailable /\ last_week_load = 50) =>
              (allowed_max = 70 /\ PlanLoads = <<20, 23, 26>>)

C2_Witness ==
    /\ Returned /\ ScalingBranch
    /\ IsNovice3Unavailable /\ last_week_load = 50
    /\ PlanLoads = <<20, 23, 26>>

\* C3 as stated: for last_week_load > 0 the ceiling is
\* max(round(last_week_load * 1.10), last_week_load + 20) and scaling is
\* triggered exactly when the sum of load_units exceeds it.
C3_RoundedCeiling ==
    (Returned /\ last_week_load > 0) =>
        /\ allowed_max = Max(RoundDiv(last_week_load * 11, 10), last_week_load + 20)
        /\ \A i \in 1..Len(sessions) : Annotated(i) <=> TotalBefore > allowed_max

\* C3 amended: the ceiling is max(int(last_week_load * 1.10),
\* last_week_load + 20), the product truncated and not rounded, and scaling
\* is triggered exactly when the sum of load_units exceeds it.
C3_TruncatedCeiling ==
    (Returned /\ last_week_load > 0) =>
        /\ allowed_max = Max((last_week_load * 11) \div 10, last_week_load + 20)
        /\ \A i \in 1..Len(sessions) :
              Annotated(i) <=>
                  TotalBefore > Max((last_week_load * 11) \div 10, last_week_load + 20)

C3_Witness ==
    /\ Returned /\ last_week_load = 207
    /\ allowed_max = 227
    /\ \E i \in 1..Len(sessions) : Annotated(i)

C5_OnlyFirstNotesChange ==
    (Returned /\ WithinBranch) =>
        /\ \A i \in 1..Len(sessions) : LoadAfter(i) = LoadBefore(i)
        /\ \A i \in 2..Len(sessions) : NotesAfter(i) = NotesBefore(i)

\* C6: the guardrail returns a list of the same length and order, leaves
\* day, focus, intensity and duration_min of every session unchanged, and
\* the notes after the call have the notes before the call as a prefix.
C6_FrameOfGuardrail ==
    Returned =>
        /\ Len(sessions) = Len(selected.list)
        /\ sessions = selected.list
        /\ DOMAIN heap = DOMAIN selected.objs
        /\ \A i \in 1..Len(sessions) :
              LET before == selected.objs[selected.list[i]]
                  after == heap[sessions[i]]
              IN  /\ after.day = before.day
                  /\ after.focus = before.focus
                  /\ after.intensity = before.intensity
                  /\ after.duration_min = before.duration_min
                  /\ IsPrefix(before.notes, after.notes)

C6_Witness ==
    /\ Returned /\ ScalingBranch
    /\ Len(sessions) >= 4
    /\ \A i \in 1..Len(sessions) : Annotated(i)

\* C7: generate_week_plan returns a plan and never raises, whatever the
\* sport, level, contraindications, sessions_per_week (0 included),
\* last_week_load >= 0 and AI outcome.
C7_NeverRaises == pc # "raised"

CallCount(name) == Cardinality({i \in 1..Len(calls) : calls[i] = name})

TemplateCalls ==
    CallCount("generate_boxing_sessions_template")
    + CallCount("generate_generic_sessions_template")

Finished == pc \in {"returned", "raised"}

\* C8: in every run of generate_week_plan the AI requester is called exactly
\* once and before any template generator; a template generator is called
\* iff the AI result is absent or empty, the boxing one iff the lower-cased
\* sport is "boxing" and the generic one otherwise; the guardrail is applied
\* exactly once, to the sessions of exactly one source.
C8_OneSourceInOrder ==
    /\ calls # <<>> => calls[1] = "generate_sessions_ai"
    /\ CallCount("generate_sessions_ai") <= 1
    /\ pc \in {"selected", "returned", "raised"} =>
          /\ CallCount("generate_sessions_ai") = 1
          /\ TemplateCalls = (IF ai_sessions.none \/ ai_sessions.list = <<>> THEN 1 ELSE 0)
          /\ CallCount("generate_boxing_sessions_template") = 1 =>
                /\ Lower(sport) = StrBoxingLower
                /\ selected = GenerateBoxingSessionsTemplate(level, sessions_per_week,
                                  contraindications)
          /\ CallCount("generate_generic_sessions_template") = 1 =>
                /\ Lower(sport) # StrBoxingLower
                /\ selected = GenerateGenericSessionsTemplate(sport, level, sessions_per_week,
                                  contraindications)
          /\ TemplateCalls = 0 =>
                /\ selected.objs = ai_sessions.objs
                /\ selected.list = ai_sessions.list
    /\ Finished =>
          /\ CallCount("apply_weekly_load_guardrail") = 1
          /\ calls[Len(calls)] = "apply_weekly_load_guardrail"
          /\ Len(calls) = 2 + TemplateCalls
    /\ ~Finished => CallCount("apply_weekly_load_guardrail") = 0

\* a run that fell back to a template after the service answered, and a
\* finished guardrail
C8_Witness ==
    /\ Returned
    /\ OPENAI_AVAILABLE /\ response.kind = "sessions_list" /\ ai_sessions.none
    /\ calls = <<"generate_sessions_ai", "generate_boxing_sessions_template",
                 "apply_weekly_load_guardrail">>
    /\ ScalingBranch

AIDone == pc = "ai_done"

AIDays == [n \in 1..Len(ai_sessions.list) |-> ai_sessions.objs[ai_sessions.list[n]].day]

\* C9: for a requested count of at most 7 and any raw response, the list
\* generate_sessions_ai returns has pairwise-distinct day values, each one of
\* Mon..Sun.
C9_DistinctDays ==
    (AIDone /\ ~ai_sessions.none /\ sessions_per_week <= 7) =>
        /\ \A n \in 1..Len(AIDays) : AIDays[n] \in {"Mon", "Tue", "Wed", "Thu", "Fri", "Sat", "Sun"}
        /\ \A m, n \in 1..Len(AIDays) : m # n => AIDays[m] # AIDays[n]

\* seven sessions out of an answer that names only one day
C9_Witness ==
    /\ AIDone /\ ~ai_sessions.none
    /\ Len(ai_sessions.list) = 7
    /\ \A n \in 1..Len(response.sessions) : response.sessions[n] = ItemSunHard

\* the sanitized intensity, duration and load expected of each modelled item
ExpectedOf(item) ==
    IF item = ItemSunHard THEN <<"Hard", 60, 180>>
    ELSE IF item = ItemOddDay THEN <<"Moderate", 30, 60>>
    ELSE <<"Easy", 20, 20>>

\* C10: every record generate_sessions_ai returns has duration_min in
\* [20, 60], intensity in {Easy, Moderate, Hard} (Moderate when the
\* title-cased raw value is outside that set) and load_units equal to
\* factor(intensity) * duration_min with Easy 1, Moderate 2, Hard 3, whatever
\* load the response carries.
C10_SanitizedFields ==
    (AIDone /\ ~ai_sessions.none) =>
        \A n \in 1..Len(ai_sessions.objs) :
            LET s == ai_sessions.objs[n]
                factor == CASE s.intensity = "Easy" -> 1
                            [] s.intensity = "Moderate" -> 2
                            [] s.intensity = "Hard" -> 3
                            [] OTHER -> 0
            IN  /\ s.duration_min >= 20 /\ s.duration_min <= 60
                /\ s.intensity \in {"Easy", "Moderate", "Hard"}
                /\ s.load_units = factor * s.duration_min
                /\ <<s.intensity, s.duration_min, s.load_units>> = ExpectedOf(response.sessions[n])

\* an answer with a too long, a too short and a missing duration, and with
\* a lower-case, an upper-case and an unknown intensity
C10_Witness ==
    /\ AIDone /\ ~ai_sessions.none
    /\ Len(ai_sessions.objs) >= 3
    /\ {response.sessions[n] : n \in 1..3} = {ItemSunHard, ItemOddDay, ItemNoDay}

\* generate_sessions_ai has been called and has handed back ai_sessions
AICalled == pc \in {"ai_returned", "selected", "returned", "raised"}

\* the number of items the loop reaches: min(requested, items in the list)
ItemsReached ==
    IF response.kind = "sessions_list"
    THEN Min(sessions_per_week, Len(response.sessions))
    ELSE 0

\* an item among those the loop reaches has a duration_min int() rejects
CoercionFails ==
    \E n \in 1..ItemsReached : response.sessions[n] = ItemBadDuration

\* C11: generate_sessions_ai never propagates an exception: the caller always
\* gets a value back, which is either None or a list of exactly
\* min(sessions_per_week, number of items in the response) sanitized records;
\* it is None whenever the client is unavailable, the call or the JSON parse
\* fails, the sessions key is missing or no list, a field the loop coerces
\* cannot be coerced, or the resulting list is empty, and a list otherwise.
C11_NoneOrExactList ==
    /\ pc # "start" => AICalled
    /\ AICalled =>
          /\ ai_sessions.none <=>
                \/ ~OPENAI_AVAILABLE
                \/ response.kind \in {"error", "no_sessions_key", "sessions_not_list"}
                \/ CoercionFails
                \/ ItemsReached = 0
          /\ ~ai_sessions.none =>
                /\ Len(ai_sessions.list) = ItemsReached
                /\ Len(ai_sessions.objs) = ItemsReached
                /\ {ai_sessions.list[n] : n \in 1..ItemsReached} = 1..ItemsReached
                /\ \A n \in 1..ItemsReached :
                      LET s == ai_sessions.objs[n]
                      IN  /\ InDaysOrder(s.day)
                          /\ s.intensity \in {"Easy", "Moderate", "Hard"}
                          /\ s.duration_min \in 20..60

\* the service answered with a list whose second item has a duration int()
\* rejects, two sessions were requested, and the caller got None
C11_Witness ==
    /\ AICalled /\ OPENAI_AVAILABLE
    /\ response.kind = "sessions_list" /\ Len(response.sessions) = 2
    /\ response.sessions[1] = ItemSunHard /\ response.sessions[2] = ItemBadDuration
    /\ sessions_per_week >= 2
    /\ ai_sessions.none

\* the boxing template generator produced the plan handed to the guardrail
BoxingCalled == CallCount("generate_boxing_sessions_template") = 1

\* day, intensity, duration_min and load_units of the hand-written catalogs
Catalog ==
    IF Lower(level) = StrNovice
    THEN <<(<<"Tue", "Easy-Moderate", 25, 30>>), (<<"Thu", "Moderate", 25, 35>>),
           (<<"Sat", "Moderate", 30, 40>>)>>
    ELSE IF Lower(level) = StrIntermediate
    THEN <<(<<"Mon", "Moderate-Hard", 35, 55>>), (<<"Wed", "Moderate", 35, 50>>),
           (<<"Fri", "Hard", 35, 60>>)>>
    ELSE <<(<<"Tue", "Hard", 40, 70>>), (<<"Thu", "Hard", 40, 70>>),
           (<<"Sat", "Moderate-Hard", 40, 65>>)>>

\* the record at position i of the generator's list, and its fields
TemplateAt(i) == selected.objs[selected.list[i]]
FieldsAt(i) ==
    <<TemplateAt(i).day, TemplateAt(i).intensity, TemplateAt(i).duration_min,
      TemplateAt(i).load_units>>

DayOrdered(objs, list) ==
    \A i \in 1..(Len(list) - 1) : DayKey(objs[list[i]].day) <= DayKey(objs[list[i + 1]].day)

\* C12: for every level and every requested count n with 0 <= n <= 3,
\* generate_boxing_sessions_template returns exactly n records, the first n
\* entries of that level's catalog, in non-decreasing day order.
C12_CatalogPrefix ==
    (BoxingCalled /\ sessions_per_week <= 3) =>
        /\ Len(selected.list) = sessions_per_week
        /\ \A i \in 1..Len(selected.list) :
              /\ FieldsAt(i) = Catalog[i]
              /\ TemplateAt(i) = BoxingTemplates(level, contraindications)[i]
        /\ DayOrdered(selected.objs, selected.list)

C12_Witness ==
    /\ BoxingCalled /\ sessions_per_week = 2
    /\ Len(selected.list) = 2
    /\ FieldsAt(1)[1] = "Mon" /\ FieldsAt(2)[1] = "Wed"

\* C13 as stated: for every level and requested count n > 3 the returned
\* list has length n and its entries beyond index 3 have the focus,
\* intensity, duration_min and load_units of catalog entry 0.
C13_TailDuplicatesEntry0 ==
    (BoxingCalled /\ sessions_per_week > 3) =>
        /\ Len(selected.list) = sessions_per_week
        /\ \A i \in 5..Len(selected.list) :
              /\ TemplateAt(i).focus = BoxingTemplates(level, contraindications)[1].focus
              /\ <<FieldsAt(i)[2], FieldsAt(i)[3], FieldsAt(i)[4]>>
                    = <<Catalog[1][2], Catalog[1][3], Catalog[1][4]>>

\* C13 amended: for every level and requested count n > 3 the returned list
\* has length n; because the list is sorted by day after the padding and
\* entry 0 has the earliest day of its catalog, indices 0 .. n-3 hold
\* catalog entry 0 (the original and its n-3 duplicates, all with the same
\* focus, intensity, duration_min and load_units) and the last two indices
\* hold catalog entries 1 and 2.
C13_DuplicatesSortedFirst ==
    (BoxingCalled /\ sessions_per_week > 3) =>
        LET n == sessions_per_week
        IN  /\ Len(selected.list) = n
            /\ \A i \in 1..(n - 2) :
                  /\ FieldsAt(i) = Catalog[1]
                  /\ TemplateAt(i).focus = BoxingTemplates(level, contraindications)[1].focus
            /\ FieldsAt(n - 1) = Catalog[2]
            /\ FieldsAt(n) = Catalog[3]

C13_Witness ==
    /\ BoxingCalled /\ sessions_per_week = 5
    /\ [i \in 1..Len(selected.list) |-> FieldsAt(i)[1]] = <<"Tue", "Tue", "Tue", "Thu", "Sat">>
    /\ FieldsAt(1)[4] = 30

\* C14: every plan returned by generate_week_plan is ordered by day index:
\* for all adjacent sessions the earlier day's index is <= the later one's,
\* whichever source produced the plan and for every sessions_per_week in 2..6.
C14_ReturnedPlanDayOrdered ==
    (Returned /\ sessions_per_week \in 2..6) => DayOrdered(heap, sessions)

\* the output of the template generator chosen by generate_week_plan
TemplateOutput ==
    IF Lower(sport) = StrBoxingLower
    THEN GenerateBoxingSessionsTemplate(level, sessions_per_week, contraindications)
    ELSE GenerateGenericSessionsTemplate(sport, level, sessions_per_week, contraindications)

\* C15: with the AI unavailable and last_week_load <= 0, generate_week_plan
\* returns exactly the template generator's output: the guardrail changes no
\* load_units and no notes of any session; Boxing / Novice / 3 gives the
\* novice sessions on Tue, Thu, Sat with loads [30, 35, 40].
C15_TemplateOutputUntouched ==
    (~OPENAI_AVAILABLE /\ last_week_load <= 0) =>
        /\ pc # "raised"
        /\ Returned =>
              /\ sessions = TemplateOutput.list
              /\ heap = TemplateOutput.objs
              /\ Len(sessions) = Len(selected.list)
              /\ \A i \in 1..Len(sessions) :
                    /\ LoadAfter(i) = LoadBefore(i)
                    /\ NotesAfter(i) = NotesBefore(i)
              /\ IsNovice3Unavailable =>
                    /\ [i \in 1..Len(sessions) |-> heap[sessions[i]].day] = <<"Tue", "Thu", "Sat">>
                    /\ PlanLoads = <<30, 35, 40>>

C15_Witness ==
    /\ Returned /\ IsNovice3Unavailable /\ last_week_load = 0
    /\ PlanLoads = <<30, 35, 40>>
    /\ calls = <<"generate_sessions_ai", "generate_boxing_sessions_template",
                 "apply_weekly_load_guardrail">>

\* the sentence openings that embed the contraindication text in a note,
\* and the literal placeholder written for each
EmbedOpenings ==
    {"Contraindications to watch: ", "Avoid any movements that aggravate: ",
     "Stop if pain or dizziness occurs, especially given: ",
     "Modify combinations if they aggravate: ", "Respect pain or previous issues: ",
     "Monitor joints and previous issues: ", "Contraindications to respect: ",
     "Context to remember: "}

PlaceholderOf(opening) ==
    CASE opening = "Contraindications to watch: " -> "None stated"
      [] opening = "Avoid any movements that aggravate: " -> "None"
      [] opening = "Stop if pain or dizziness occurs, especially given: " -> "no stated issues"
      [] opening = "Modify combinations if they aggravate: " -> "None"
      [] opening = "Respect pain or previous issues: " -> "None"
      [] opening = "Monitor joints and previous issues: " -> "None declared"
      [] opening = "Contraindications to respect: " -> "None stated"
      [] OTHER -> "no specific issues noted"

\* the contraindication input is empty or only whitespace
BlankContraindications == contraindications \in {"", " "}

\* C16: in every template-generated and AI-generated session note that
\* embeds the contraindication text, an input that is empty or consists only
\* of whitespace is replaced by that note's literal placeholder; the raw
\* whitespace never appears in its place.
C16_BlankReplacedByPlaceholder ==
    (pc \in {"selected", "returned"} /\ BlankContraindications) =>
        \A i \in 1..Len(sessions) :
            \A j \in 1..Len(NotesAfter(i)) :
                NotesAfter(i)[j] \in EmbedOpenings =>
                    /\ j < Len(NotesAfter(i))
                    /\ NotesAfter(i)[j + 1] = PlaceholderOf(NotesAfter(i)[j])

\* number of guardrail-applied annotations in the notes of position i
GuardrailAnnotations(i) ==
    Cardinality({j \in 1..Len(NotesAfter(i)) :
                    NotesAfter(i)[j] = GuardrailNote(last_week_load, allowed_max)[1]})

\* C18: when the plan was padded by generate_boxing_sessions_template
\* (sessions_per_week > 3) and the scaling branch is taken, every occurrence
\* of catalog entry 0 ends with load_units equal to a single application of
\* the scaling to entry 0's original load, and its notes carry exactly one
\* guardrail annotation.
C18_PaddedEntryScaledOnce ==
    (Returned /\ ScalingBranch /\ BoxingCalled /\ sessions_per_week > 3) =>
        \A i \in 1..Len(sessions) :
            sessions[i] = 1 =>
                /\ LoadAfter(i) \in TruncatedLoads(LoadBefore(i), allowed_max, current_total)
                /\ GuardrailAnnotations(i) = 1

\* analyse_adherence_and_rpe has returned
AdherenceDone == pc = "adherence_done"

\* rows ticked as completed, and the sum of their RPE values
CompletedRows == {i \in 1..Len(adherence_data) : adherence_data[i].completed}

RECURSIVE RpeTotal(_)
RpeTotal(i) ==
    IF i = 0 THEN 0
    ELSE RpeTotal(i - 1) + (IF adherence_data[i].completed THEN adherence_data[i].rpe ELSE 0)

\* n is a nearest integer to num / den
IsNearest(n, num, den) == 2 * (IF num >= n * den THEN num - n * den ELSE n * den - num) <= den

\* C17: for every non-empty list of (completed, integer RPE 0..10) pairs,
\* analyse_adherence_and_rpe reports the number completed out of the total
\* with the rounded completion percentage, the average RPE over completed
\* sessions only (to one decimal), and exactly one qualitative branch when at
\* least one session was completed: "reduce" iff the average is >= 8, else
\* "may progress" iff the average is <= 3 and the completion rate is >= 70%,
\* else "appropriate"; [(true,8),(true,9),(false,0)] gives 2 of 3, 67%,
\* average 8.5 and the "reduce" branch.  An empty list yields no summary.
C17_AdherenceSummary ==
    AdherenceDone =>
        LET total == Len(adherence_data)
            done == Cardinality(CompletedRows)
            rpe_sum == RpeTotal(total)
            parts == summary.msg_parts
        IN  /\ summary.none <=> total = 0
            /\ total > 0 =>
                  /\ Len(parts) = (IF done = 0 THEN 1 ELSE 3)
                  /\ parts[1][2] = ToString(done)
                  /\ parts[1][4] = ToString(total)
                  /\ \E p \in 0..100 : IsNearest(p, 100 * done, total) /\ parts[1][7] = ToString(p)
                  /\ done > 0 =>
                        /\ \E t \in 0..100 :
                              /\ IsNearest(t, 10 * rpe_sum, done)
                              /\ SubSeq(parts[2], 2, 4) = <<ToString(t \div 10), ".", ToString(t % 10)>>
                        /\ parts[3] \in {StrReduce, StrProgress, StrAppropriate}
                        /\ parts[3] = StrReduce <=> rpe_sum >= 8 * done
                        /\ parts[3] = StrProgress <=>
                              (rpe_sum < 8 * done /\ rpe_sum <= 3 * done /\ 100 * done >= 70 * total)
            /\ adherence_data = <<[completed |-> TRUE, rpe |-> 8], [completed |-> TRUE, rpe |-> 9],
                                  [completed |-> FALSE, rpe |-> 0]>> =>
                  /\ parts[1] = <<"You completed ", "2", " of ", "3", " sessions ", "(", "67",
                                  "% adherence).">>
                  /\ SubSeq(parts[2], 2, 4) = <<"8", ".", "5">>
                  /\ parts[3] = StrReduce

C17_Witness ==
    /\ AdherenceDone
    /\ adherence_data = <<[completed |-> TRUE, rpe |-> 8], [completed |-> TRUE, rpe |-> 9],
                          [completed |-> FALSE, rpe |-> 0]>>
    /\ ~summary.none
    /\ summary.msg_parts[3] = StrReduce

====
